---- MODULE Spec2Model ----
(***************************************************************************)
(* The falling-block engine of src/tetris/game.js as a state machine.      *)
(*                                                                         *)
(* The board is scaled down: the source sets COLS = 10 and ROWS = 20       *)
(* (game.js lines 2-3); here COLS and ROWS are bounds of the model.  COLS  *)
(* is at least 7 so that every kind of piece lies between the walls at the *)
(* spawn anchor x = 3, and ROWS is at least 4 so that a vertical I piece   *)
(* can complete four rows at once.  Everything else (shapes, spawn anchor, *)
(* kick list, scoring table, level rule) is the source's.                  *)
(***************************************************************************)
EXTENDS Integers, Sequences, FiniteSets, TLC

\* ---------------------------------------------------------------- bounds
COLS == 7
ROWS == 4
\* Locks allowed per session (between two resets).
MaxLocks == 1
\* How many columns beyond a wall a cell of the active piece may drift while
\* it is above the board (the source sets no limit there).
MaxOut == 1
\* The sessions Init starts from have had at most this many single-row
\* clears before the modelled part begins.
MaxStartLines == 139
\* Frame callbacks that may be pending at once (the source sets no limit).
MaxPending == 2

\* ------------------------------------------------------------- constants
Null == "null"

TETROS == <<"I", "O", "T", "S", "Z", "J", "L">>

Kinds == {TETROS[i] : i \in 1..Len(TETROS)}

\* The kinds randomPiece() draws in the model: the four-wide piece, a
\* three-wide piece that spawns wholly above the board, and a piece that
\* reaches into row 0 at the spawn anchor.
DrawKinds == {"I", "T", "S"}

COLORS ==
  [t \in Kinds |->
     CASE t = "I" -> "#00ffff" [] t = "O" -> "#f1e05a" [] t = "T" -> "#a970ff"
       [] t = "S" -> "#00ff9c" [] t = "Z" -> "#ff4d6d" [] t = "J" -> "#4dabf7"
       [] OTHER -> "#ffb74d"]

SHAPES ==
  [t \in Kinds |->
     CASE t = "I" -> << <<0,1>>, <<1,1>>, <<2,1>>, <<3,1>> >>
       [] t = "O" -> << <<1,0>>, <<2,0>>, <<1,1>>, <<2,1>> >>
       [] t = "T" -> << <<1,0>>, <<0,1>>, <<1,1>>, <<2,1>> >>
       [] t = "S" -> << <<1,1>>, <<2,1>>, <<0,2>>, <<1,2>> >>
       [] t = "Z" -> << <<0,1>>, <<1,1>>, <<1,2>>, <<2,2>> >>
       [] t = "J" -> << <<0,0>>, <<0,1>>, <<1,1>>, <<2,1>> >>
       [] OTHER   -> << <<2,0>>, <<0,1>>, <<1,1>>, <<2,1>> >>]

\* [0, 40, 100, 300, 1200], indexed from 1 here.
Table == <<0, 40, 100, 300, 1200>>

\* The kick offsets tried to the right first.
KicksRightFirst == <<1, -1, 2, -2>>

\* The kick offsets of rotateCurrent, in the order they are tried.
Kicks == <<-1, 1, -2, 2>>

\* The time a frame adds to the accumulator: a short frame and a stalled one.
Deltas == {500, 1000}

Max(a, b) == IF a >= b THEN a ELSE b

\* ----------------------------------------------------------------- state
VARIABLES
  grid,          \* [0..ROWS-1 -> [0..COLS-1 -> color or Null]]
  current,       \* the active piece
  next,          \* the queued piece
  holdType,      \* the held kind, or Null
  holdUsed,
  score, lines, level,
  dropInterval,
  dropAccum,
  paused,
  over,
  nlocks,        \* locks since the last reset (bounds the model)
  lastMerged,    \* the cells merge wrote at the last lock
  lastOverwrote, \* whether that merge wrote onto a non-empty cell
  lastCleared,   \* the rows clearLines removed at the last lock
  lastOp,        \* what the last step did, where the state does not show it
  pending        \* update callbacks requested and not yet run

vars == <<grid, current, next, holdType, holdUsed, score, lines, level,
          dropInterval, dropAccum, paused, over, nlocks, lastMerged,
          lastOverwrote, lastCleared, lastOp, pending>>

\* The state of the engine proper (without the model's bookkeeping).
engine == <<grid, current, next, holdType, holdUsed, score, lines, level,
            dropInterval, dropAccum, paused, over>>

\* ------------------------------------------------------------ the pieces
EmptyRow == [x \in 0..(COLS - 1) |-> Null]

createGrid == [y \in 0..(ROWS - 1) |-> EmptyRow]

\* pieceFromType placing the piece one row lower.
pieceFromTypeLow(t) ==
  [type |-> t, shape |-> SHAPES[t], x |-> 3, y |-> -1, rot |-> 0,
   color |-> COLORS[t]]

pieceFromType(t) ==
  [type |-> t, shape |-> SHAPES[t], x |-> 3, y |-> -2, rot |-> 0,
   color |-> COLORS[t]]

\* The absolute cells of a piece, in the order of its shape.
Cells(p) == [i \in 1..Len(p.shape) |-> <<p.x + p.shape[i][1], p.y + p.shape[i][2]>>]

CellSet(p) == {Cells(p)[i] : i \in 1..Len(p.shape)}

Shift(p, dx, dy) == [p EXCEPT !.x = p.x + dx, !.y = p.y + dy]

\* rotate with the transform (x, y) -> (2 - y, y), which is no rotation.
rotateFlat(p) ==
  [p EXCEPT !.rot = (p.rot + 1) % 4,
            !.shape = [i \in 1..Len(p.shape) |->
                         <<2 - p.shape[i][2], p.shape[i][2]>>]]

rotate(p) ==
  [p EXCEPT !.rot = (p.rot + 1) % 4,
            !.shape = [i \in 1..Len(p.shape) |->
                         <<2 - p.shape[i][2], p.shape[i][1]>>]]

\* collides without its test of the settled cells.
collidesWallsOnly(g, p) ==
  \E i \in 1..Len(p.shape) :
    LET gx == p.x + p.shape[i][1]
        gy == p.y + p.shape[i][2]
    IN  /\ gy >= 0
        /\ \/ gx < 0
           \/ gx >= COLS
           \/ gy >= ROWS

collides(g, p) ==
  \E i \in 1..Len(p.shape) :
    LET gx == p.x + p.shape[i][1]
        gy == p.y + p.shape[i][2]
    IN  /\ gy >= 0
        /\ \/ gx < 0
           \/ gx >= COLS
           \/ gy >= ROWS
           \/ g[gy][gx] # Null

\* merge without its test of the row.
MergeCellsAnyRow(p) == CellSet(p)

\* The cells merge writes: those of the piece with row >= 0.
MergeCells(p) == {c \in CellSet(p) : c[2] >= 0}

\* merge writing only the cells below the top row.
mergeBelowTop(g, p) ==
  [y \in 0..(ROWS - 1) |->
     [x \in 0..(COLS - 1) |->
        IF <<x, y>> \in MergeCells(p) /\ y > 0 THEN p.color ELSE g[y][x]]]

merge(g, p) ==
  [y \in 0..(ROWS - 1) |->
     [x \in 0..(COLS - 1) |->
        IF <<x, y>> \in MergeCells(p) THEN p.color ELSE g[y][x]]]

\* ------------------------------------------------------------- clearLines
RowFull(row) == \A x \in 0..(COLS - 1) : row[x] # Null

\* The rows of a grid as a list, top row first.
RowsOf(g) == [i \in 1..Cardinality(DOMAIN g) |-> g[i - 1]]

\* The grid (rows indexed from 0) a list of rows makes.
GridOf(rows) == [r \in 0..(Len(rows) - 1) |-> rows[r + 1]]

\* rows.splice(y, 1), y counted from 0.
Splice(rows, y) == SubSeq(rows, 1, y) \o SubSeq(rows, y + 2, Len(rows))

\* rows.unshift(row) putting the row in twice.
UnshiftTwice(rows, row) == <<row, row>> \o rows

\* rows.unshift(row)
Unshift(rows, row) == <<row>> \o rows

\* grid.splice(y, 1); grid.unshift(empty row)
RemoveRow(g, y) == GridOf(Unshift(Splice(RowsOf(g), y), EmptyRow))

RECURSIVE ClearScanNoRecheck(_, _, _)
\* The loop of clearLines without its y++ after a removal.
ClearScanNoRecheck(g, y, cleared) ==
  IF y < 0 THEN [grid |-> g, cleared |-> cleared]
  ELSE IF RowFull(g[y])
  THEN CHOOSE r \in {ClearScanNoRecheck(g2, y - 1, cleared + 1) :
                       g2 \in {RemoveRow(g, y)}} : TRUE
  ELSE ClearScanNoRecheck(g, y - 1, cleared)

RECURSIVE ClearScanCountsEmpty(_, _, _)
\* The loop of clearLines counting the empty rows it passes as cleared.
ClearScanCountsEmpty(g, y, cleared) ==
  IF y < 0 THEN [grid |-> g, cleared |-> cleared]
  ELSE IF RowFull(g[y])
  THEN CHOOSE r \in {ClearScanCountsEmpty(g2, y, cleared + 1) :
                       g2 \in {RemoveRow(g, y)}} : TRUE
  ELSE IF g[y] = EmptyRow THEN ClearScanCountsEmpty(g, y - 1, cleared + 1)
  ELSE ClearScanCountsEmpty(g, y - 1, cleared)

RECURSIVE ClearScan(_, _, _)
\* The loop of clearLines from row y upward, with `cleared` rows removed so
\* far: a removed row makes the scan look at the same index again.  (g2 is
\* the grid after the removal, computed once.)
ClearScan(g, y, cleared) ==
  IF y < 0 THEN [grid |-> g, cleared |-> cleared]
  ELSE IF RowFull(g[y])
  THEN CHOOSE r \in {ClearScan(g2, y, cleared + 1) :
                       g2 \in {RemoveRow(g, y)}} : TRUE
  ELSE ClearScan(g, y - 1, cleared)

clearLinesScan(g) == ClearScan(g, ROWS - 1, 0)

\* clearLines raising the level before it computes the points.
clearLinesScoreLevelFirst(cleared, c) ==
  IF cleared = 0 THEN c
  ELSE LET l2 == c.lines + cleared
           up == l2 >= c.level * 10
           lv == IF up THEN c.level + 1 ELSE c.level
       IN  [score |-> c.score + Table[cleared + 1] * lv,
            lines |-> l2,
            level |-> lv,
            dropInterval |->
              IF up THEN Max(80, (c.dropInterval * 85) \div 100)
              ELSE c.dropInterval]

\* clearLines raising the level only once lines exceeds level * 10.
clearLinesScoreStrict(cleared, c) ==
  IF cleared = 0 THEN c
  ELSE LET l2 == c.lines + cleared
           up == l2 > c.level * 10
       IN  [score |-> c.score + Table[cleared + 1] * c.level,
            lines |-> l2,
            level |-> IF up THEN c.level + 1 ELSE c.level,
            dropInterval |->
              IF up THEN Max(80, (c.dropInterval * 85) \div 100)
              ELSE c.dropInterval]

\* clearLines without the floor of 80 under the interval.
clearLinesScoreNoFloor(cleared, c) ==
  IF cleared = 0 THEN c
  ELSE LET l2 == c.lines + cleared
           up == l2 >= c.level * 10
       IN  [score |-> c.score + Table[cleared + 1] * c.level,
            lines |-> l2,
            level |-> IF up THEN c.level + 1 ELSE c.level,
            dropInterval |->
              IF up THEN (c.dropInterval * 85) \div 100
              ELSE c.dropInterval]

\* The counters after clearLines has removed `cleared` rows.
clearLinesScore(cleared, c) ==
  IF cleared = 0 THEN c
  ELSE LET l2 == c.lines + cleared
           up == l2 >= c.level * 10
       IN  [score |-> c.score + Table[cleared + 1] * c.level,
            lines |-> l2,
            level |-> IF up THEN c.level + 1 ELSE c.level,
            dropInterval |->
              IF up THEN Max(80, (c.dropInterval * 85) \div 100)
              ELSE c.dropInterval]

\* clearLines() on grid g with the counters c: the scan, then the counters.
clearLines(g, c) ==
  LET sc == clearLinesScan(g)
      cs == clearLinesScore(sc.cleared, c)
  IN  [grid |-> sc.grid, cleared |-> sc.cleared, score |-> cs.score,
       lines |-> cs.lines, level |-> cs.level,
       dropInterval |-> cs.dropInterval]

ResetCounters == [score |-> 0, lines |-> 0, level |-> 1, dropInterval |-> 800]

Counters == [score |-> score, lines |-> lines, level |-> level,
             dropInterval |-> dropInterval]

\* ------------------------------------------------------------------ spawn
\* spawn without its collision test.
spawnNoTest(g, nxt, t, ov) ==
  LET cur == [nxt EXCEPT !.x = 3, !.y = -2, !.rot = 0]
  IN  [current |-> cur, next |-> pieceFromType(t), holdUsed |-> FALSE,
       over |-> ov]

\* spawn ending the session also when the piece cannot move down.
spawnStuckIsOver(g, nxt, t, ov) ==
  LET cur == [nxt EXCEPT !.x = 3, !.y = -2, !.rot = 0]
  IN  [current |-> cur, next |-> pieceFromType(t), holdUsed |-> FALSE,
       over |-> (ov \/ collides(g, cur) \/ collides(g, Shift(cur, 0, 1)))]

\* spawn making the newly drawn piece active and leaving the queue alone.
spawnDrawsActive(g, nxt, t, ov) ==
  LET cur == pieceFromType(t)
  IN  [current |-> cur, next |-> nxt, holdUsed |-> FALSE,
       over |-> (ov \/ collides(g, cur))]

\* spawn placing the piece one column to the right.
spawnOffCentre(g, nxt, t, ov) ==
  LET cur == [nxt EXCEPT !.x = 4, !.y = -2, !.rot = 0]
  IN  [current |-> cur, next |-> pieceFromType(t), holdUsed |-> FALSE,
       over |-> (ov \/ collides(g, cur))]

\* spawn() with `nxt` queued on grid g, t the kind randomPiece() draws.
spawn(g, nxt, t, ov) ==
  LET cur == [nxt EXCEPT !.x = 3, !.y = -2, !.rot = 0]
  IN  [current |-> cur, next |-> pieceFromType(t), holdUsed |-> FALSE,
       over |-> (ov \/ collides(g, cur))]

\* The active piece may go on in the model: no cell further than MaxOut
\* columns beyond a wall.
InModel(p) == \A c \in CellSet(p) : c[1] >= -MaxOut /\ c[1] <= COLS - 1 + MaxOut

\* ------------------------------------------------------------- operations
\* move without its collision test.
moveUnchecked(g, cur, dx, dy) == Shift(cur, dx, dy)

\* move(dx, dy): the shifted piece if it does not collide, else the piece.
move(g, cur, dx, dy) ==
  LET p == Shift(cur, dx, dy)
  IN  IF ~collides(g, p) THEN p ELSE cur

RECURSIVE KickFrom(_, _, _, _)
\* The loop over the kick offsets from the i-th on; cur if none fits.
KickFrom(g, cur, p, i) ==
  IF i > Len(Kicks) THEN cur
  ELSE IF ~collides(g, Shift(p, Kicks[i], 0)) THEN Shift(p, Kicks[i], 0)
  ELSE KickFrom(g, cur, p, i + 1)

rotateCurrent(g, cur) ==
  LET p == rotate(cur)
  IN  IF ~collides(g, p) THEN p ELSE KickFrom(g, cur, p, 1)

RECURSIVE DropTo(_, _)
\* The loop of hardDrop: the piece moved down while it does not collide.
DropTo(g, cur) ==
  IF collides(g, Shift(cur, 0, 1)) THEN cur ELSE DropTo(g, Shift(cur, 0, 1))

\* The guard of the key handler and of the buttons before move, rotate,
\* hardDrop and hold.
InputAccepted == ~paused /\ ~over

\* The modelled part of a session ends with its MaxLocks-th lock: from then
\* on the model takes reset() alone.
InSession == nlocks < MaxLocks

\* update() testing paused alone.
UpdateRunsWhenOver == ~paused

\* update() testing over alone.
UpdateRunsWhenPaused == ~over

\* The guard of update().
UpdateRuns == ~(paused \/ over)

\* doHold() without its test of holdUsed.
HoldRunsAgain == ~(paused \/ over)

\* The guard of doHold().
HoldRuns == ~(paused \/ over \/ holdUsed)

\* tickLock() with p the active piece and t the kind randomPiece() draws:
\* merge, clearLines (sc is what it leaves), spawn.
TickLock(p, t, op) ==
  \E sc \in {clearLines(merge(grid, p), Counters)} :
  LET sp == spawn(sc.grid, next, t, over)
  IN  /\ grid' = sc.grid
      /\ score' = sc.score
      /\ lines' = sc.lines
      /\ level' = sc.level
      /\ dropInterval' = sc.dropInterval
      /\ current' = sp.current
      /\ next' = sp.next
      /\ holdUsed' = sp.holdUsed
      /\ over' = sp.over
      /\ nlocks' = nlocks + 1
      /\ lastMerged' = MergeCells(p)
      /\ lastOverwrote' =
           \E c2 \in MergeCells(p) :
             /\ c2[1] \in 0..(COLS - 1)
             /\ c2[2] \in 0..(ROWS - 1)
             /\ grid[c2[2]][c2[1]] # Null
      /\ lastCleared' = sc.cleared
      /\ lastOp' = op

History == <<nlocks, lastMerged, lastOverwrote, lastCleared>>

\* update() leaving a piece that cannot move down where it is.
UpdateNoLock(delta) ==
  IF pending = 0 THEN FALSE
  ELSE IF ~UpdateRuns
  THEN /\ pending' = pending - 1
       /\ UNCHANGED <<engine, History, lastOp>>
  ELSE IF dropAccum + delta > dropInterval
  THEN /\ dropAccum' = 0
       /\ current' = move(grid, current, 0, 1)
       /\ lastOp' = "other"
       /\ UNCHANGED <<grid, next, holdType, holdUsed, score, lines, level,
                      dropInterval, paused, over, History, pending>>
  ELSE /\ dropAccum' = dropAccum + delta
       /\ lastOp' = "other"
       /\ UNCHANGED <<grid, current, next, holdType, holdUsed, score, lines,
                      level, dropInterval, paused, over, History, pending>>

\* update() taking dropInterval off the accumulator instead of clearing it.
UpdateCarry(delta) ==
  IF pending = 0 THEN FALSE
  ELSE IF ~UpdateRuns
  THEN /\ pending' = pending - 1
       /\ UNCHANGED <<engine, History, lastOp>>
  ELSE IF dropAccum + delta > dropInterval
  THEN /\ dropAccum' = dropAccum + delta - dropInterval
       /\ IF collides(grid, Shift(current, 0, 1))
          THEN /\ \E t \in DrawKinds : TickLock(current, t, "tickLock")
               /\ UNCHANGED <<holdType, paused, pending>>
          ELSE /\ current' = Shift(current, 0, 1)
               /\ lastOp' = "other"
               /\ UNCHANGED <<grid, next, holdType, holdUsed, score, lines,
                              level, dropInterval, paused, over, History,
                              pending>>
  ELSE /\ dropAccum' = dropAccum + delta
       /\ lastOp' = "other"
       /\ UNCHANGED <<grid, current, next, holdType, holdUsed, score, lines,
                      level, dropInterval, paused, over, History, pending>>

\* update(time), delta the time since the last frame.
Update(delta) ==
  IF pending = 0 THEN FALSE
  ELSE IF ~UpdateRuns
  THEN /\ pending' = pending - 1
       /\ UNCHANGED <<engine, History, lastOp>>
  ELSE IF dropAccum + delta > dropInterval
  THEN /\ dropAccum' = 0
       /\ IF collides(grid, Shift(current, 0, 1))
          THEN /\ \E t \in DrawKinds : TickLock(current, t, "tickLock")
               /\ UNCHANGED <<holdType, paused, pending>>
          ELSE /\ current' = Shift(current, 0, 1)
               /\ lastOp' = "other"
               /\ UNCHANGED <<grid, next, holdType, holdUsed, score, lines,
                              level, dropInterval, paused, over, History,
                              pending>>
  ELSE /\ dropAccum' = dropAccum + delta
       /\ lastOp' = "other"
       /\ UNCHANGED <<grid, current, next, holdType, holdUsed, score, lines,
                      level, dropInterval, paused, over, History, pending>>

Tick == \E delta \in Deltas : Update(delta)

\* ArrowLeft, ArrowRight, ArrowDown and their buttons.
Move(dx, dy) ==
  IF ~InputAccepted THEN UNCHANGED vars
  ELSE /\ InModel(move(grid, current, dx, dy))
       /\ current' = move(grid, current, dx, dy)
       /\ lastOp' = IF current' = current THEN lastOp ELSE "other"
       /\ UNCHANGED <<grid, next, holdType, holdUsed, score, lines, level,
                      dropInterval, dropAccum, paused, over, History,
                      pending>>

MoveLeft == Move(-1, 0)

MoveRight == Move(1, 0)

\* A soft drop that locks the piece it cannot move.
MoveDownLocks ==
  IF ~InputAccepted THEN UNCHANGED vars
  ELSE IF collides(grid, Shift(current, 0, 1))
  THEN /\ \E t \in DrawKinds : TickLock(current, t, "other")
       /\ UNCHANGED <<holdType, dropAccum, paused, pending>>
  ELSE Move(0, 1)

MoveDown == Move(0, 1)

\* How an accepted rotation is recorded: by the offset it was shifted by.
KickTag(k) ==
  CASE k = -1 -> "kick-1" [] k = 1 -> "kick+1" [] k = -2 -> "kick-2"
    [] k = 2 -> "kick+2" [] OTHER -> "other"

\* ArrowUp and its button.
Rotate ==
  IF ~InputAccepted THEN UNCHANGED vars
  ELSE /\ InModel(rotateCurrent(grid, current))
       /\ current' = rotateCurrent(grid, current)
       /\ lastOp' = IF current' = current THEN lastOp
                    ELSE KickTag(current'.x - current.x)
       /\ UNCHANGED <<grid, next, holdType, holdUsed, score, lines, level,
                      dropInterval, dropAccum, paused, over, History,
                      pending>>

\* Space and its button.
HardDrop ==
  IF ~InputAccepted THEN UNCHANGED vars
  ELSE IF DropTo(grid, current) # current
  THEN /\ \E t \in DrawKinds : TickLock(DropTo(grid, current), t, "hardDrop")
       /\ UNCHANGED <<holdType, dropAccum, paused, pending>>
  ELSE UNCHANGED vars

\* doHold taking the held piece out of the slot without storing the active
\* one in its place.
HoldTakesOut ==
  IF ~InputAccepted \/ ~HoldRuns THEN UNCHANGED vars
  ELSE IF holdType = Null
  THEN /\ holdType' = current.type
       /\ \E t \in DrawKinds :
            LET sp == spawn(grid, next, t, over)
            IN  /\ current' = sp.current
                /\ next' = sp.next
                /\ over' = sp.over
       /\ holdUsed' = TRUE
       /\ lastOp' = "store"
       /\ UNCHANGED <<grid, score, lines, level, dropInterval, dropAccum,
                      paused, History, pending>>
  ELSE /\ holdType' = Null
       /\ current' = pieceFromType(holdType)
       /\ over' = (over \/ collides(grid, pieceFromType(holdType)))
       /\ holdUsed' = TRUE
       /\ lastOp' = "swap"
       /\ UNCHANGED <<grid, next, score, lines, level, dropInterval,
                      dropAccum, paused, History, pending>>

\* doHold() without its closing holdUsed = true.
HoldNoMark ==
  IF ~InputAccepted \/ ~HoldRuns THEN UNCHANGED vars
  ELSE IF holdType = Null
  THEN /\ holdType' = current.type
       /\ \E t \in DrawKinds :
            LET sp == spawn(grid, next, t, over)
            IN  /\ current' = sp.current
                /\ next' = sp.next
                /\ over' = sp.over
                /\ holdUsed' = sp.holdUsed
       /\ lastOp' = "store"
       /\ UNCHANGED <<grid, score, lines, level, dropInterval, dropAccum,
                      paused, History, pending>>
  ELSE /\ holdType' = current.type
       /\ current' = pieceFromType(holdType)
       /\ over' = (over \/ collides(grid, pieceFromType(holdType)))
       /\ lastOp' = "swap"
       /\ UNCHANGED <<grid, next, holdUsed, score, lines, level,
                      dropInterval, dropAccum, paused, History, pending>>

\* Shift, KeyC and the hold button.
Hold ==
  IF ~InputAccepted \/ ~HoldRuns THEN UNCHANGED vars
  ELSE IF holdType = Null
  THEN /\ holdType' = current.type
       /\ \E t \in DrawKinds :
            LET sp == spawn(grid, next, t, over)
            IN  /\ current' = sp.current
                /\ next' = sp.next
                /\ over' = sp.over
       /\ holdUsed' = TRUE
       /\ lastOp' = "store"
       /\ UNCHANGED <<grid, score, lines, level, dropInterval, dropAccum,
                      paused, History, pending>>
  ELSE /\ holdType' = current.type
       /\ current' = pieceFromType(holdType)
       /\ over' = (over \/ collides(grid, pieceFromType(holdType)))
       /\ holdUsed' = TRUE
       /\ lastOp' = "swap"
       /\ UNCHANGED <<grid, next, score, lines, level, dropInterval,
                      dropAccum, paused, History, pending>>

\* KeyP and the pause button.
TogglePause ==
  IF over THEN UNCHANGED vars
  ELSE /\ paused => pending < MaxPending
       /\ paused' = ~paused
       /\ pending' = IF paused THEN pending + 1 ELSE pending
       /\ lastOp' = "other"
       /\ UNCHANGED <<grid, current, next, holdType, holdUsed, score, lines,
                      level, dropInterval, dropAccum, over, History>>

\* reset() without its paused = false.
ResetKeepsPause ==
  \E t1, t2 \in DrawKinds :
    LET sp == spawn(createGrid, pieceFromType(t1), t2, FALSE)
    IN  /\ grid' = createGrid
        /\ score' = ResetCounters.score
        /\ lines' = ResetCounters.lines
        /\ level' = ResetCounters.level
        /\ dropInterval' = ResetCounters.dropInterval
        /\ holdType' = Null
        /\ current' = sp.current
        /\ next' = sp.next
        /\ holdUsed' = sp.holdUsed
        /\ over' = sp.over
        /\ dropAccum' = 0
        /\ nlocks' = 0
        /\ lastMerged' = {}
        /\ lastOverwrote' = FALSE
        /\ lastCleared' = 0
        /\ lastOp' = "reset"
        /\ pending < MaxPending
        /\ pending' = pending + 1
        /\ UNCHANGED paused

\* reset(), t1 and t2 the kinds its two randomPiece() calls draw.
Reset ==
  \E t1, t2 \in DrawKinds :
    LET sp == spawn(createGrid, pieceFromType(t1), t2, FALSE)
    IN  /\ grid' = createGrid
        /\ score' = ResetCounters.score
        /\ lines' = ResetCounters.lines
        /\ level' = ResetCounters.level
        /\ dropInterval' = ResetCounters.dropInterval
        /\ paused' = FALSE
        /\ holdType' = Null
        /\ current' = sp.current
        /\ next' = sp.next
        /\ holdUsed' = sp.holdUsed
        /\ over' = sp.over
        /\ dropAccum' = 0
        /\ nlocks' = 0
        /\ lastMerged' = {}
        /\ lastOverwrote' = FALSE
        /\ lastCleared' = 0
        /\ lastOp' = "reset"
        /\ pending < MaxPending
        /\ pending' = pending + 1

\* ------------------------------------------------------------ first states
RECURSIVE Singles(_, _)
\* The counters c after m more locks that clear one row each.  (The test of
\* c.lines never holds; it makes TLC compute c before it goes on.)
Singles(c, m) ==
  IF m = 0 \/ c.lines < 0 THEN c
  ELSE Singles(clearLinesScore(1, c), m - 1)

\* The counters of a session that has cleared n rows one at a time.
AfterSingles(n) == Singles(ResetCounters, n)

\* A fresh session, and sessions one row short of a level-up: the second,
\* the fourth, and the one that takes dropInterval to its floor.
StartLines == {0, 19, 39, MaxStartLines}

\* A board the engine reaches with I pieces alone: h horizontal ones stacked
\* on columns 0..3 and a vertical one standing in each of the columns
\* 4..COLS-2.  The last column is empty, so no row is full.
StackGrid(h) ==
  [y \in 0..(ROWS - 1) |->
     [x \in 0..(COLS - 1) |->
        IF \/ (x <= 3 /\ y >= ROWS - h)
           \/ (x >= 4 /\ x <= COLS - 2 /\ y >= ROWS - 4)
        THEN COLORS["I"] ELSE Null]]

\* A board with one vertical I piece standing in column 3.
SpikeGrid ==
  [y \in 0..(ROWS - 1) |->
     [x \in 0..(COLS - 1) |->
        IF x = 3 /\ y >= ROWS - 4 THEN COLORS["I"] ELSE Null]]

\* The state a spawn leaves on grid g after n single-row clears, with
\* `held` in the hold slot.
StartOn(g, n, held) ==
  \E t1, t2 \in DrawKinds :
    LET sp == spawn(g, pieceFromType(t1), t2, FALSE)
        c  == AfterSingles(n)
    IN  /\ grid = g
        /\ score = c.score
        /\ lines = c.lines
        /\ level = c.level
        /\ dropInterval = c.dropInterval
        /\ paused = FALSE
        /\ holdType = held
        /\ current = sp.current
        /\ next = sp.next
        /\ holdUsed = sp.holdUsed
        /\ over = sp.over
        /\ dropAccum = 0
        /\ nlocks = 0
        /\ lastMerged = {}
        /\ lastOverwrote = FALSE
        /\ lastCleared = 0
        /\ lastOp = "other"
        /\ pending = 1

\* The session after the reset() that boots the page, or a session in play
\* on one of the stacked boards, a piece just spawned: after some rows
\* cleared with nothing held, or with a kind held earlier in the hold slot;
\* or a session in play on the board with the single standing piece.
Init ==
  \/ StartOn(createGrid, 0, Null)
  \/ \E h \in 1..ROWS, n \in StartLines : StartOn(StackGrid(h), n, Null)
  \/ \E h \in 1..ROWS, held \in DrawKinds : StartOn(StackGrid(h), 0, held)
  \/ StartOn(SpikeGrid, 0, Null)

Next ==
  \/ InSession /\ Tick
  \/ InSession /\ MoveLeft
  \/ InSession /\ MoveRight
  \/ InSession /\ MoveDown
  \/ InSession /\ Rotate
  \/ InSession /\ HardDrop
  \/ InSession /\ Hold
  \/ InSession /\ TogglePause
  \/ Reset

Spec == Init /\ [][Next]_vars

\* A session played without pause and without restart, the frame callback
\* coming again and again (update() asks for the next frame each time it
\* runs).
NextPlay ==
  \/ InSession /\ Tick
  \/ InSession /\ MoveLeft
  \/ InSession /\ MoveRight
  \/ InSession /\ MoveDown
  \/ InSession /\ Rotate
  \/ InSession /\ HardDrop
  \/ InSession /\ Hold

\* The sessions played so: the fresh one, and one on the highest stack.
InitPlay ==
  \/ StartOn(createGrid, 0, Null)
  \/ StartOn(StackGrid(ROWS), 0, Null)

SpecPlay == InitPlay /\ [][NextPlay]_vars /\ WF_vars(InSession /\ Tick)

\* ------------------------------------------------------------ vocabulary
\* No cell of p is left of column 0, right of column COLS-1 or below the
\* floor.
InsideWalls(p) ==
  \A c \in CellSet(p) : c[1] >= 0 /\ c[1] < COLS /\ c[2] < ROWS

\* p is where a spawn puts a piece.
AtAnchor(p) == p.x = 3 /\ p.y = -2 /\ p.rot = 0 /\ p.shape = SHAPES[p.type]

\* A step that locks a piece (tickLock ran).
LockStep == nlocks' = nlocks + 1

\* A step in which hold() took effect.
HoldStep == ~holdUsed /\ holdUsed'

\* The rows that are full once `cells` are written into g.
FullRowsWith(g, cells) ==
  {y \in 0..(ROWS - 1) :
     \A x \in 0..(COLS - 1) : g[y][x] # Null \/ <<x, y>> \in cells}

\* The piece a locking step locks: the active piece where a tick finds it,
\* or where hardDrop has taken it.
LockedPiece ==
  IF lastOp' = "tickLock" THEN current ELSE DropTo(grid, current)

\* Grid g once the cells of `cells` that lie on it have the color.
MergedWith(g, cells, color) ==
  [y \in 0..(ROWS - 1) |->
     [x \in 0..(COLS - 1) |->
        IF <<x, y>> \in cells THEN color ELSE g[y][x]]]

NotFull(row) == \E x \in DOMAIN row : row[x] = Null

\* ------------------------------------------------------------------ C1
\* C1: no lock ever writes a cell outside the grid: every cell merge wrote
\* at the last lock has its column in [0, COLS) and its row in [0, ROWS).
C1_MergeInsideGrid ==
  \A c \in lastMerged : c[1] \in 0..(COLS - 1) /\ c[2] \in 0..(ROWS - 1)

\* A piece was locked partly above the board: merge wrote some of its cells
\* and dropped the others.
C1_Witness ==
  nlocks > 0 /\ lastMerged # {} /\ Cardinality(lastMerged) < 4

\* ------------------------------------------------------------------ C2
\* C2 (as claimed): after any rotate() no cell of the active piece has
\* x < 0, x >= COLS or y >= ROWS.
C2_RotateInsideWalls == [][Rotate => InsideWalls(current')]_vars

\* ------------------------------------------------------------------ C3
\* C3 (as claimed): a move whose shifted piece has a cell outside the walls
\* or below the floor is rejected, so that the active piece stays between
\* the walls.
C3_MoveRejectedOutside ==
  [][\A d \in {<<-1, 0>>, <<1, 0>>, <<0, 1>>} :
       (InputAccepted /\ Move(d[1], d[2])
          /\ ~InsideWalls(Shift(current, d[1], d[2])))
       => current' = current]_vars

\* ------------------------------------------------------------------ C4
\* C4: while the session is not over the active piece overlaps no settled
\* cell (no cell of it with row >= 0 lies on a non-empty grid cell), and no
\* lock has written onto an occupied cell.
C4_NoOverlap ==
  /\ ~over =>
       \A c \in CellSet(current) :
         (c[1] \in 0..(COLS - 1) /\ c[2] \in 0..(ROWS - 1))
           => grid[c[2]][c[1]] = Null
  /\ ~lastOverwrote

\* After a lock the active piece stands on a settled cell without
\* overlapping any.
C4_Witness ==
  /\ ~over
  /\ lastMerged # {}
  /\ \E c \in CellSet(current) :
       /\ c[1] \in 0..(COLS - 1)
       /\ c[2] \in 0..(ROWS - 2)
       /\ grid[c[2] + 1][c[1]] # Null

\* ------------------------------------------------------------------ C5
\* C5 (as claimed): a piece that cannot descend at all from the spawn
\* anchor ends the session: the spawn that brings it sets over.
C5_StuckSpawnEnds ==
  [][((LockStep \/ HoldStep) /\ AtAnchor(current')
        /\ collides(grid', Shift(current', 0, 1)))
     => over']_vars

\* ------------------------------------------------------------------ C6
\* C6: when the piece a spawn or a hold swap makes active overlaps settled
\* cells at the spawn anchor, over is true at the end of that same step.
C6_SpawnCollisionSetsOver ==
  [][((LockStep \/ HoldStep) /\ collides(grid', current')) => over']_vars

\* The session ended at the spawn that followed a lock.
C6_Witness ==
  over /\ nlocks > 0 /\ AtAnchor(current) /\ collides(grid, current)

\* ------------------------------------------------------------------ C7
\* C7: over goes from false to true only in a step that spawns (after a
\* lock or a first hold) or swaps in a held piece, and only when the new
\* active piece collides at the spawn anchor.
C7_OverOnlyAtSpawn ==
  [][(~over /\ over')
     => /\ LockStep \/ HoldStep
        /\ AtAnchor(current')
        /\ collides(grid', current')]_vars

\* The session ended at a hold.
C7_Witness ==
  over /\ nlocks = 0 /\ holdUsed /\ collides(grid, current)

\* ------------------------------------------------------------------ C8
\* C8: once over is true, every step that changes anything is a reset():
\* tick, move, rotate, hardDrop, hold and togglePause leave the state as it
\* is.
C8_OverIsTerminal == [][over => Reset]_<<engine, History, lastOp>>

\* A hold ended the session, and the input layer still takes operations.
C8_Witness == over /\ InSession /\ holdUsed

\* ------------------------------------------------------------------ C9
\* C9: a lock that completes n rows at level L adds Table[n] * L to score
\* and n to lines (L the level before the lock); with n = 0 it leaves
\* score, lines, level and dropInterval as they were.
C9_ScorePerLock ==
  [][LockStep =>
       LET n == Cardinality(FullRowsWith(grid, lastMerged'))
       IN  /\ n \in 0..4
           /\ score' = score + Table[n + 1] * level
           /\ lines' = lines + n
           /\ n = 0 => (level' = level /\ dropInterval' = dropInterval)]_vars

\* Four rows were cleared at once by the lock that took the session from
\* level 2 to level 3: the points are those of level 2.
C9_Witness ==
  /\ lastCleared = 4
  /\ level = 3
  /\ score = AfterSingles(lines - 4).score + 1200 * 2

\* ------------------------------------------------------------------ C10
\* C10: in every state level = 1 + floor(lines / 10).
C10_LevelFromLines == level = 1 + (lines \div 10)

\* A lock cleared four rows and took lines across a multiple of 10.
C10_Witness ==
  /\ lastCleared = 4
  /\ (lines - 4) \div 10 < lines \div 10
  /\ lines % 10 # 0
  /\ level > 1

\* ------------------------------------------------------------------ C11
RECURSIVE Pow(_, _)
Pow(b, e) == IF e = 0 THEN 1 ELSE b * Pow(b, e - 1)

\* round(800 * 0.85^k), with 0.85 = 17/20 and halves rounded up; the
\* numbers stay below 2^31 for k <= 5.
Round85(k) == (800 * Pow(17, k) + Pow(20, k) \div 2) \div Pow(20, k)

\* C11 (as claimed): with level = k + 1, dropInterval equals
\* max(80, round(800 * 0.85^k)); stated for the levels up to 6, where the
\* closed form can be computed.
C11_IntervalClosedForm ==
  level <= 6 => dropInterval = Max(80, Round85(level - 1))

\* ------------------------------------------------------------------ C12
\* C12: in every step other than a reset(), score, lines and level do not
\* decrease, dropInterval does not increase and stays at 80 or above, and
\* dropInterval changes only if level increases.
C12_CountersMonotone ==
  [][~Reset =>
       /\ score' >= score
       /\ lines' >= lines
       /\ level' >= level
       /\ dropInterval' <= dropInterval
       /\ dropInterval' >= 80
       /\ dropInterval' # dropInterval => level' > level]_vars

\* A lock raised the level and the interval came down onto its floor.
C12_Witness ==
  lastCleared > 0 /\ dropInterval = 80 /\ lines \div 10 > (lines - lastCleared) \div 10

\* ------------------------------------------------------------------ C13
\* C13: hold() while paused, over, or with holdUsed already true changes
\* nothing: hold slot, active piece, next piece, grid, counters and
\* holdUsed stay as they are.
C13_HoldNoOp ==
  [][(Hold /\ (paused \/ over \/ holdUsed)) => UNCHANGED engine]_vars

\* A hold has just taken effect and the input layer accepts another one.
C13_Witness ==
  holdUsed /\ lastOp \in {"store", "swap"} /\ InputAccepted /\ InSession

\* ------------------------------------------------------------------ C14
\* C14: hold() with an empty hold slot (not paused, not over, holdUsed
\* false) puts the active piece's type in the hold slot, makes the queued
\* piece the active piece at the spawn anchor, draws a new next piece and
\* ends with holdUsed true; grid and counters stay as they are.
C14_FirstHold ==
  [][(Hold /\ ~paused /\ ~over /\ ~holdUsed /\ holdType = Null) =>
       /\ holdType' = current.type
       /\ current' = [next EXCEPT !.x = 3, !.y = -2, !.rot = 0]
       /\ AtAnchor(current')
       /\ \E t \in Kinds :
            next' = [type |-> t, shape |-> SHAPES[t], x |-> 3, y |-> -2,
                     rot |-> 0, color |-> COLORS[t]]
       /\ holdUsed'
       /\ UNCHANGED <<grid, score, lines, level, dropInterval>>]_vars

\* A first hold has just stored a type and the queued piece is in play.
C14_Witness ==
  lastOp = "store" /\ holdUsed /\ holdType # Null /\ AtAnchor(current) /\ ~over

\* ------------------------------------------------------------------ C15
\* C15: hold() with an occupied hold slot swaps: the hold slot gets the
\* active piece's type, the active piece becomes a fresh piece of the held
\* type, unrotated at x = 3, y = -2; next, grid and counters stay as they
\* are, and over becomes true iff the fresh piece collides.
C15_HoldSwap ==
  [][(Hold /\ ~paused /\ ~over /\ ~holdUsed /\ holdType # Null) =>
       /\ holdType' = current.type
       /\ current' = [type |-> holdType, shape |-> SHAPES[holdType],
                      x |-> 3, y |-> -2, rot |-> 0,
                      color |-> COLORS[holdType]]
       /\ UNCHANGED <<next, grid, score, lines, level, dropInterval>>
       /\ over' <=> collides(grid, current')]_vars

\* A swap has brought the held piece in, and it collided with the stack.
C15_Witness ==
  lastOp = "swap" /\ over /\ AtAnchor(current) /\ collides(grid, current)

\* ------------------------------------------------------------------ C16
\* C16: every hold() that changes the state starts with holdUsed false and
\* ends with holdUsed true, and holdUsed goes from true to false only in a
\* step that locks a piece (the spawn after the lock) or in a reset().
C16_OneHoldPerPiece ==
  [][/\ Hold => (~holdUsed /\ holdUsed')
     /\ (holdUsed /\ ~holdUsed') => (LockStep \/ Reset)]_vars

\* A hold took effect on a stacked board that started with an empty slot,
\* and the lock that followed made hold available again.
C16_Witness ==
  nlocks > 0 /\ ~holdUsed /\ holdType # Null /\ lines >= 19

\* ------------------------------------------------------------------ C17
\* C17: when the rotated piece collides, rotate() installs it shifted by the
\* first of the offsets -1, +1, -2, +2 (in that order) that does not
\* collide: a later offset is used only if every earlier one collides.
C17_KickOrder ==
  [][(Rotate /\ InputAccepted /\ collides(grid, rotate(current))) =>
       LET p == rotate(current)
           free(k) == ~collides(grid, Shift(p, k, 0))
       IN  /\ free(-1) => current' = Shift(p, -1, 0)
           /\ (~free(-1) /\ free(1)) => current' = Shift(p, 1, 0)
           /\ (~free(-1) /\ ~free(1) /\ free(-2)) => current' = Shift(p, -2, 0)
           /\ (~free(-1) /\ ~free(1) /\ ~free(-2) /\ free(2))
                => current' = Shift(p, 2, 0)]_vars

\* The last rotation was installed two columns to the right: where it
\* stands two columns to the left (un-kicked), and at the offsets -1, +1
\* and -2 from there, the piece collides.
C17_Witness ==
  /\ lastOp = "kick+2"
  /\ collides(grid, Shift(current, -2, 0))
  /\ collides(grid, Shift(current, -3, 0))
  /\ collides(grid, Shift(current, -1, 0))
  /\ collides(grid, Shift(current, -4, 0))

\* ------------------------------------------------------------------ C18
\* C18: a rotate() whose rotated piece collides un-kicked and at all four
\* offsets, and a move(dx, dy) whose shifted piece collides, leave the
\* active piece, the grid and all other state as they are.
C18_RejectedUnchanged ==
  [][/\ (Rotate /\ InputAccepted
           /\ collides(grid, rotate(current))
           /\ \A k \in {-1, 1, -2, 2} :
                collides(grid, Shift(rotate(current), k, 0)))
          => UNCHANGED engine
     /\ \A d \in {<<-1, 0>>, <<1, 0>>, <<0, 1>>} :
          (Move(d[1], d[2]) /\ InputAccepted
             /\ collides(grid, Shift(current, d[1], d[2])))
          => UNCHANGED engine]_vars

\* The active piece stands where rotate() has no placement for it and
\* where it can move neither down nor to the right.
C18_Witness ==
  /\ InputAccepted /\ InSession
  /\ collides(grid, rotate(current))
  /\ \A k \in {-1, 1, -2, 2} : collides(grid, Shift(rotate(current), k, 0))
  /\ collides(grid, Shift(current, 0, 1))
  /\ collides(grid, Shift(current, 1, 0))

\* ------------------------------------------------------------------ C19
\* C19 (as claimed): whenever the input layer accepts it, hardDrop() locks
\* the active piece at the lowest free position straight below it, also
\* when the piece rests already: a hardDrop step that locks is possible.
C19_HardDropLocks ==
  InputAccepted =>
    ENABLED (HardDrop /\ LockStep
               /\ lastMerged' = MergeCells(DropTo(grid, current)))

\* ------------------------------------------------------------------ C20
\* C20: a tick that takes the accumulator above dropInterval sets it to 0
\* and applies one gravity step, however large the surplus: the piece
\* moves down one row and nothing else changes, or, if it cannot, it is
\* merged, the full rows of the merged grid are cleared, and the queued
\* piece spawns on the cleared grid.  A tick that leaves the accumulator at
\* or below dropInterval changes the accumulator alone.
C20_TickOneStep ==
  [][\A delta \in Deltas :
       (/\ ~paused /\ ~over
        /\ pending' = pending /\ lastOp' \in {"other", "tickLock"}
        /\ \/ dropAccum' # dropAccum
           \/ current'.y = current.y + 1
           \/ LockStep
        /\ Update(delta)) =>
         IF dropAccum + delta > dropInterval
         THEN /\ dropAccum' = 0
              /\ IF collides(grid, Shift(current, 0, 1))
                 THEN /\ LockStep
                      /\ lastMerged' = MergeCells(current)
                      /\ lines' - lines =
                           Cardinality(FullRowsWith(grid, MergeCells(current)))
                      /\ grid' = clearLinesScan(merge(grid, current)).grid
                      /\ current' = [next EXCEPT !.x = 3, !.y = -2, !.rot = 0]
                      /\ over' <=> collides(grid', current')
                 ELSE /\ current' = [current EXCEPT !.y = current.y + 1]
                      /\ UNCHANGED <<grid, next, holdType, holdUsed, score,
                                     lines, level, dropInterval, paused, over>>
         ELSE /\ dropAccum' = dropAccum + delta
              /\ UNCHANGED <<grid, current, next, holdType, holdUsed, score,
                             lines, level, dropInterval, paused, over>>]_vars

\* A tick locked the resting piece, the merge completed rows and they were
\* cleared before the spawn.
C20_Witness ==
  lastOp = "tickLock" /\ lastCleared > 0 /\ dropAccum = 0 /\ lastMerged # {}

C22_ResetInitial ==
  [][Reset =>
       /\ \A y \in 0..(ROWS - 1) : \A x \in 0..(COLS - 1) : grid'[y][x] = Null
       /\ score' = 0 /\ lines' = 0 /\ level' = 1 /\ dropInterval' = 800
       /\ holdType' = Null /\ ~holdUsed' /\ ~paused' /\ ~over'
       /\ dropAccum' = 0
       /\ current'.type \in Kinds /\ AtAnchor(current')
       /\ next'.type \in Kinds /\ AtAnchor(next')]_vars

\* The state a reset() has just left.
C22_Witness ==
  lastOp = "reset" /\ ~over /\ ~paused /\ score = 0 /\ holdType = Null

\* ------------------------------------------------------------------ C23
\* C23: in every state the grid has exactly ROWS rows of exactly COLS
\* cells: clearLines puts one empty row on top for each row it removes.
C23_GridShape ==
  /\ DOMAIN grid = 0..(ROWS - 1)
  /\ \A y \in DOMAIN grid : DOMAIN grid[y] = 0..(COLS - 1)

\* A lock removed one row and the top row is the empty row put in for it.
C23_Witness ==
  lastCleared = 1 /\ \A x \in 0..(COLS - 1) : grid[0][x] = Null

\* ------------------------------------------------------------------ C24
\* C24: the grid a lock leaves is k empty rows followed by the rows of the
\* merged grid that are not full, in their order and unchanged, k being the
\* number of full rows of the merged grid (the grid before the lock with
\* the cells the merge wrote).
C24_ClearRemovesFullRows ==
  [][LockStep =>
       LET rows == RowsOf(MergedWith(grid, lastMerged', current.color))
           kept == SelectSeq(rows, NotFull)
           k    == Len(rows) - Len(kept)
       IN  \A y \in 0..(ROWS - 1) :
             grid'[y] = IF y < k THEN [x \in 0..(COLS - 1) |-> Null]
                        ELSE kept[y - k + 1]]_vars

\* Two adjacent rows were removed at one lock and the rows above them,
\* which are not empty, have come down.
C24_Witness ==
  /\ lastCleared = 2
  /\ \A y \in {0, 1} : \A x \in 0..(COLS - 1) : grid[y][x] = Null
  /\ \E x \in 0..(COLS - 1) : grid[ROWS - 1][x] # Null

\* ------------------------------------------------------------------ C25
\* C25: the number of rows one lock clears is between 0 and 4 (the scoring
\* table has an entry for it), because it is at most the number of rows
\* the locked piece wrote cells into.
C25_ClearedInRange ==
  /\ lastCleared \in 0..4
  /\ lastCleared <= Cardinality({c[2] : c \in lastMerged})

\* A vertical I piece completed four rows at once and left the board empty.
C25_Witness ==
  /\ lastCleared = 4
  /\ \A y \in 0..(ROWS - 1) : \A x \in 0..(COLS - 1) : grid[y][x] = Null

\* ------------------------------------------------------------------ C26
\* C26: the cells a lock writes are exactly the cells of the locked piece
\* with row >= 0, and they get the color of the piece (seen on the locks
\* that clear no row, where the grid after the lock is the merged grid);
\* a piece locked wholly above the board leaves the grid as it was, and
\* the queued piece spawns.
C26_MergeVisibleCells ==
  [][LockStep =>
       /\ lastMerged' = {c \in CellSet(LockedPiece) : c[2] >= 0}
       /\ lastCleared' = 0 =>
            \A y \in 0..(ROWS - 1) : \A x \in 0..(COLS - 1) :
              grid'[y][x] = IF <<x, y>> \in lastMerged' THEN current.color
                            ELSE grid[y][x]
       /\ lastMerged' = {} =>
            /\ grid' = grid
            /\ current' = [next EXCEPT !.x = 3, !.y = -2, !.rot = 0]]_vars

\* A piece was locked wholly above the board and the session went on.
C26_Witness ==
  nlocks > 0 /\ lastMerged = {} /\ ~over /\ AtAnchor(current)

\* ------------------------------------------------------------------ C27
\* C27 (as claimed): clearLines() changes the grid alone: the score, lines,
\* level and dropInterval it leaves are those it found, whatever number of
\* rows it removed from the merged grid.
C27_ClearLinesGridOnly ==
  [][LockStep =>
       LET r == clearLines(MergedWith(grid, lastMerged', current.color),
                           Counters)
       IN  /\ r.score = score
           /\ r.lines = lines
           /\ r.level = level
           /\ r.dropInterval = dropInterval]_vars

\* ------------------------------------------------------------------ C28
\* C28: the spawn after a lock makes the piece that was next the active
\* piece at x = 3, y = -2, rot = 0, and puts a new piece of one of the 7
\* kinds in the next slot; the next slot always holds a piece.
C28_SpawnFromQueue ==
  /\ [](next.type \in Kinds /\ AtAnchor(next))
  /\ [][LockStep =>
          /\ current' = [next EXCEPT !.x = 3, !.y = -2, !.rot = 0]
          /\ \E t \in Kinds :
               next' = [type |-> t, shape |-> SHAPES[t], x |-> 3, y |-> -2,
                        rot |-> 0, color |-> COLORS[t]]]_vars

\* After a lock the queued piece is in play and another kind is queued.
C28_Witness ==
  nlocks > 0 /\ ~over /\ AtAnchor(current) /\ current.type # next.type

\* ------------------------------------------------------------------ C29
\* C29: with the ticks coming, in a session neither paused nor over, the
\* piece in play is eventually locked or the session ends, whatever the
\* player does; no operation but a spawn or a swap decreases the y of the
\* active piece, and no cell of it is ever below the floor.
C29_PieceEventuallyLocks ==
  /\ (nlocks = 0 /\ ~over) ~> (nlocks > 0 \/ over)
  /\ [][current'.y >= current.y \/ LockStep \/ HoldStep]_vars
  /\ [](\A c \in CellSet(current) : c[2] < ROWS)

\* A tick locked a piece that had been taken to the last column and had
\* come down to the floor.
C29_Witness ==
  lastOp = "tickLock" /\ <<COLS - 1, ROWS - 1>> \in lastMerged

\* C30: a spawn or a hold swap sets over only for an incoming piece of kind S
\* or Z: the pieces of the kinds I, O, T, J and L have their cells in rows -2
\* and -1 at the spawn anchor and collide with no grid there.
C30_OverOnlySZ ==
  /\ [](\A t \in Kinds \ {"S", "Z"} :
          /\ \A c \in CellSet(pieceFromType(t)) : c[2] \in {-2, -1}
          /\ ~collides(grid, pieceFromType(t)))
  /\ [][(~over /\ over') =>
          (current'.type \in {"S", "Z"} /\ AtAnchor(current'))]_vars

\* A hold swap that brought an S back on a stack reaching the top row.
C30_Witness ==
  over /\ lastOp = "swap" /\ current.type = "S" /\ AtAnchor(current)

\* ------------------------------------------------------------------ C31
\* C31: between operations (after reset and after every completed lock) the
\* grid holds no full row: every row has at least one empty cell.
C31_NoFullRow ==
  \A y \in 0..(ROWS - 1) : NotFull(grid[y])

\* A lock that filled three rows at once and left a part of the stack.
C31_Witness ==
  /\ lastCleared = 3
  /\ \E x \in 0..(COLS - 1) : grid[ROWS - 1][x] # Null
  /\ \A y \in 0..(ROWS - 1) : NotFull(grid[y])

\* ------------------------------------------------------------------ C32
\* The pieces the claim is read on: the active one, the queued one and the
\* seven kinds as pieceFromType makes them.
RotPieces == {current, next} \cup {pieceFromType(t) : t \in Kinds}

\* C32: the rotation (x, y) -> (2 - y, x) has period 4: four rotations return
\* a piece to its shape, position and rotation state (rot goes 0, 1, 2, 3, 0),
\* and each rotation keeps the type, the color and four distinct cells; a
\* rotation the engine accepts without a kick is this transform.
C32_RotatePeriod4 ==
  /\ [](\A p \in RotPieces :
          /\ rotate(rotate(rotate(rotate(p)))) = p
          /\ rotate(p).rot = (p.rot + 1) % 4
          /\ rotate(p).type = p.type /\ rotate(p).color = p.color
          /\ rotate(p).x = p.x /\ rotate(p).y = p.y
          /\ Cardinality(CellSet(rotate(p))) = 4)
  /\ [][(Rotate /\ current' # current) =>
          /\ current'.type = current.type /\ current'.color = current.color
          /\ Cardinality(CellSet(current')) = 4
          /\ current'.rot = (current.rot + 1) % 4
          /\ (current'.x = current.x => current' = rotate(current))]_vars

\* An I piece rotated three times at the anchor of the empty board, where no
\* rotation needs a kick; the fourth rotation fits and gives the spawned piece.
C32_Witness ==
  /\ grid = createGrid /\ nlocks = 0 /\ ~over /\ ~paused
  /\ current.type = "I" /\ current.rot = 3
  /\ current.x = 3 /\ current.y = -2
  /\ ~collides(grid, rotate(current))
  /\ rotate(current) = pieceFromType("I")

\* ------------------------------------------------------------------ C33
\* The active piece rests: the row below it is not free.
Resting == collides(grid, Shift(current, 0, 1))

\* C33: a soft drop move(0, 1) that would collide changes nothing and locks
\* nothing, so a resting piece is locked only by a due gravity tick, and a
\* hardDrop locks only a piece it moved at least one row.
C33_SoftDropNeverLocks ==
  /\ []((Resting /\ InputAccepted) =>
          ~ENABLED (MoveDown /\ (engine' # engine \/ LockStep)))
  /\ [][LockStep =>
          \/ /\ Resting /\ lastOp' = "tickLock" /\ UpdateRuns
             /\ \E delta \in Deltas : dropAccum + delta > dropInterval
             /\ lastMerged' = MergeCells(current)
          \/ /\ ~Resting /\ lastOp' = "hardDrop"]_vars

\* A piece that rests below the spawn rows while a frame that was not due
\* has passed: the session goes on and the piece is still the active one.
C33_Witness ==
  /\ InSession /\ InputAccepted /\ Resting
  /\ current.y > -2 /\ dropAccum > 0 /\ nlocks = 0

\* ------------------------------------------------------------------ C34
\* C34: once the hold slot holds a type it is not empty again before a
\* reset(): a hold() that takes effect puts the type of the piece that was
\* active in the slot, and no other step (lock, spawn, tick, move, rotate,
\* pause) changes the slot.
C34_HoldSlotPersists ==
  [][/\ (holdType # Null /\ ~Reset) => holdType' # Null
     /\ (Hold /\ HoldStep) => holdType' = current.type
     /\ (holdType' # holdType) => (Reset \/ (Hold /\ HoldStep))]_vars

\* A swap took effect and the session goes on: the slot holds another type
\* than the piece it gave back.
C34_Witness ==
  /\ lastOp = "swap" /\ ~over /\ holdUsed
  /\ holdType \in Kinds /\ holdType # current.type

\* ------------------------------------------------------------------ C35
\* C35 (as claimed): after any interleaving of reset(), togglePause() and
\* frame callbacks at most one update callback is pending, so a single
\* chain of frames drives the engine.
C35_SingleUpdateChain == pending <= 1
====
